---- MODULE Spec2Model ----
(***************************************************************************)
(* The dependency Manager of internal/xpkg/dep/manager/manager.go:         *)
(* Resolve, resolveAllDeps, retrievePkg, addPkg, finalizeDepVersion and    *)
(* Snapshot, one step per collaborator call.  The Cache, the ImageResolver *)
(* and the XpkgMarshaler are interfaces whose implementations live in      *)
(* other packages of the repository; they are modelled from their          *)
(* contracts in spec.md (sections 4.3, 4.4 and 6).                         *)
(***************************************************************************)
EXTENDS Integers, Sequences, FiniteSets, TLC

\* ------------------------------------------------------------------ bounds
MaxCalls == 2        \* top-level Resolve / Snapshot calls in one behaviour
MaxRegChanges == 1   \* changes of the remote registry in one behaviour
MaxFailures == 1     \* collaborator calls that return an error in one behaviour
MaxVisits == 6       \* retrievePkg visits in one Resolve

\* ------------------------------------------------------------- the universe
Threads == {1, 2}    \* goroutines that may call into one Manager
Sequential == {1}    \* the single caller of the sequential specification

Pkgs == {"A", "B", "C"}
Cons == {"^1", "=1.1"}         \* version constraints as written in a dependency
Versions == {"1.0", "1.1"}     \* concrete tags the registry can assign
Digests == {"d1", "d2"}
Cyclic == "dc"                 \* the digest of content whose dependencies form a cycle
Types == {"T1", "T2"}          \* schema.GroupVersionKind keys

Dep(p, c) == [pkg |-> p, con |-> c]
Keys == [pkg : Pkgs, con : Cons \cup Versions]

ZeroDep == [type |-> "", pkg |-> "", con |-> ""]       \* v1beta1.Dependency{}
NoPkg == [name |-> "", version |-> "", digest |-> ""]  \* a nil *ParsedPackage
NoImg == [pkg |-> "", tag |-> "", digest |-> ""]
NoErr == [op |-> "nil", pkg |-> ""]                    \* a nil error
Err(o, d) == [op |-> o, pkg |-> d.pkg]
ErrNotExist(d) == Err("NotExist", d)
EmptyView == [k \in {} |-> NoPkg]

\* ------------------------------------------------- xpkg.ParsedPackage getters
\* The content of a package is a function of its name and digest.
Dependencies(p) ==
    CASE p.name = "A" /\ p.digest = "d1" -> <<Dep("B", "^1"), Dep("C", "^1")>>
      [] p.name = "A" /\ p.digest = "d2" -> <<Dep("B", "^1")>>
      [] p.name = "B" /\ p.digest = "d1" -> <<Dep("C", "=1.1")>>
      [] p.name = "A" /\ p.digest = Cyclic -> <<Dep("B", "^1")>>
      [] p.name = "B" /\ p.digest = Cyclic -> <<Dep("A", "^1")>>
      [] OTHER -> <<>>

ExportedTypes(p) ==
    CASE p.name = "A" -> {"T1"}
      [] p.name = "B" -> {"T1", "T2"}
      [] p.name = "C" /\ p.digest = "d1" -> {"T2"}
      [] p.name = "C" /\ p.digest = "d2" -> {"T1", "T2"}
      [] OTHER -> {}

\* a validator is identified by the package content it was built from
Validators(p) == [k \in ExportedTypes(p) |-> [from |-> p.name, digest |-> p.digest]]

PkgType(p) == IF p.name = "A" THEN "Configuration" ELSE "Provider"

PkgVersion(p) == p.version

PkgDigest(p) == p.digest

\* --------------------------------------------------------- ImageResolver
\* the tag an identity denotes: a concrete version denotes itself, an exact
\* constraint its version, any other constraint the package's current tag
RegTagOf(r, d) ==
    IF d.con \in Versions THEN d.con
    ELSE IF d.con = "=1.1" THEN "1.1"
    ELSE r.tag[d.pkg]

ResolveTag(r, d) == RegTagOf(r, d)

ResolveDigest(r, d) == r.dig[<<d.pkg, RegTagOf(r, d)>>]

ResolveImage(r, d) ==
    [pkg |-> d.pkg, tag |-> RegTagOf(r, d), digest |-> r.dig[<<d.pkg, RegTagOf(r, d)>>]]

\* --------------------------------------------------------- XpkgMarshaler
FromImage(name, t, i) == [name |-> name, version |-> t, digest |-> i.digest]

\* ----------------------------------------------------------------- Cache
CacheGet(c, d) ==
    IF c[d] = NoPkg THEN [p |-> NoPkg, err |-> ErrNotExist(d)]
    ELSE [p |-> c[d], err |-> NoErr]

CacheStore(c, d, p) == [c EXCEPT ![d] = p]

\* ------------------------------------------------------------ the Manager
\* a retrievePkg that takes no error for a cache miss
IsNotExistNever(err) == FALSE

\* os.IsNotExist(err), lines 183 and 187
IsNotExist(err) == err.op = "NotExist"

\* a retrievePkg that trusts the cached package
StaleNever(p, digest) == FALSE

\* a retrievePkg that fetches whatever the digests are
StaleAlways(p, digest) == TRUE

\* p.Digest() != digest, line 200
Stale(p, digest) == PkgDigest(p) # digest

\* a finalizeDepVersion that drops the resolved tag
finalizeNoop(d, ver) == d

\* d.Constraints = v, line 220
finalizeDepVersion(d, ver) == [d EXCEPT !.con = ver]

\* an addPkg that returns the package without storing it
addPkgNoStore(c, d, p) == c

\* m.c.Store(d, p), line 168
addPkgStore(c, d, p) == CacheStore(c, d, p)

\* a Resolve that returns nil for every retrieval error
ResolveErrSwallow(root, err) == NoErr

\* a Resolve that returns every retrieval error
ResolveErrPropagate(root, err) == err

\* the error Resolve returns when a retrieval failed: nil for the root
\* (line 113), the error itself for a transitive dependency (lines 143, 120)
ResolveErr(root, err) == IF root THEN NoErr ELSE err

\* a merge that keeps the entry it already has
PutFirst(view, vs) ==
    [k \in DOMAIN view \cup DOMAIN vs |-> IF k \in DOMAIN view THEN view[k] ELSE vs[k]]

\* for k, v := range p.Validators() { view[k] = v }, lines 94-96
PutValidators(view, vs) ==
    [k \in DOMAIN view \cup DOMAIN vs |-> IF k \in DOMAIN vs THEN vs[k] ELSE view[k]]

\* for _, p := range acc { ... }, lines 93-97
RECURSIVE MergeView(_, _)
MergeView(view, a) ==
    IF a = <<>> THEN view
    ELSE MergeView(PutValidators(view, Validators(Head(a))), Tail(a))

\* an append that puts the package in front
prependAcc(a, e) == <<e>> \o a

\* an append that starts the accumulator afresh
restartAcc(a, e) == <<e>>

\* append(m.acc, e), lines 115 and 145
appendAcc(a, e) == Append(a, e)

\* a loop that does not move on to its next dependency
UnwindStay(s) == s

\* the frames of resolveAllDeps still open once the call for the package
\* just appended returns: finished loops (line 140) are popped, the first
\* unfinished one moves to its next dependency
RECURSIVE Unwind(_)
Unwind(s) ==
    IF s = <<>> THEN <<>>
    ELSE LET top == s[Len(s)]
         IN IF top.i < Len(Dependencies(top.p))
            THEN [s EXCEPT ![Len(s)].i = top.i + 1]
            ELSE Unwind(SubSeq(s, 1, Len(s) - 1))

\* a resolveAllDeps that does not descend into a package already on its path
DescendOnce(s, e) ==
    IF Len(Dependencies(e)) = 0 \/ (\E i \in DOMAIN s : s[i].p = e) THEN Unwind(s)
    ELSE Append(s, [p |-> e, i |-> 1])

\* resolveAllDeps(ctx, e): lines 135-141
Descend(s, e) ==
    IF Len(Dependencies(e)) = 0 THEN Unwind(s)
    ELSE Append(s, [p |-> e, i |-> 1])

VARIABLES
    reg,      \* the remote registry: tag per package, digest per tagged version
    cache,    \* Manager.c: finalized identity -> stored package
    acc,      \* Manager.acc
    pc,       \* per goroutine: the next collaborator call or statement
    call,     \* per goroutine: the top-level call in progress or last made
    fr,       \* per goroutine: the open resolveAllDeps frames
    v,        \* per goroutine: the locals of the current retrievePkg visit
    ret,      \* per goroutine: what Resolve returned last
    snap,     \* per goroutine: what Snapshot returned last
    log,      \* per goroutine: collaborator calls of the current Resolve
    hist,     \* per goroutine: summaries of its last Resolve calls in a row
    fetched,  \* per identity: digest the registry served at its last stored fetch
    ncalls, nchg, nfail

vars == <<reg, cache, acc, pc, call, fr, v, ret, snap, log, hist, fetched,
          ncalls, nchg, nfail>>

NoCall == [kind |-> "none", deps |-> <<>>, k |-> 0, view |-> EmptyView,
           e |-> NoPkg, base |-> 0, added |-> <<>>]
NoVisit == [arg |-> Dep("", ""), d |-> Dep("", ""), p |-> NoPkg, cached |-> NoPkg,
            img |-> NoImg, digest |-> "", root |-> FALSE, hit |-> FALSE,
            err |-> NoErr, n |-> 0, c0 |-> <<>>, old |-> <<>>]
NoRet == [ud |-> ZeroDep, acc |-> <<>>, err |-> NoErr, done |-> FALSE]
NoSnap == [ok |-> FALSE, view |-> EmptyView, err |-> NoErr, done |-> FALSE]

\* retrievePkg(ctx, d) is entered: line 176
Visit(d, root, n, c) ==
    [NoVisit EXCEPT !.arg = d, !.d = d, !.root = root, !.n = n, !.c0 = c]

Init ==
    /\ reg = [tag |-> [p \in Pkgs |-> "1.0"],
              dig |-> [k \in Pkgs \X Versions |-> "d1"]]
    /\ cache = [k \in Keys |-> NoPkg]
    /\ acc = <<>>
    /\ pc = [t \in Threads |-> "idle"]
    /\ call = [t \in Threads |-> NoCall]
    /\ fr = [t \in Threads |-> <<>>]
    /\ v = [t \in Threads |-> NoVisit]
    /\ ret = [t \in Threads |-> NoRet]
    /\ snap = [t \in Threads |-> NoSnap]
    /\ log = [t \in Threads |-> <<>>]
    /\ hist = [t \in Threads |-> <<>>]
    /\ fetched = [k \in Keys |-> ""]
    /\ ncalls = 0
    /\ nchg = 0
    /\ nfail = 0

\* ------------------------------------------------------------- the inputs
Roots == {Dep("A", "^1"), Dep("B", "^1")}
SnapshotInputs == {<<>>, <<Dep("C", "^1")>>, <<Dep("A", "^1"), Dep("C", "^1")>>}

\* ------------------------------------------------------------ bookkeeping
Logged(t, o, out) ==
    log' = [log EXCEPT ![t] = Append(@, [op |-> o, n |-> v[t].n, id |-> v[t].d, out |-> out])]

Fetches(l) == {i \in DOMAIN l : l[i].op \in {"ResolveImage", "FromImage", "Store"}}

\* a retrievePkg that starts the visit again when a call of it failed
RetrieveErrRetry(t, err) ==
    /\ v' = [v EXCEPT ![t] = Visit(v[t].arg, v[t].root, v[t].n, v[t].c0)]
    /\ pc' = [pc EXCEPT ![t] = "ResolveTag"]
    /\ UNCHANGED <<ret, fr>>

\* retrievePkg returned err: Resolve returns at line 113 (root) or, after
\* resolveAllDeps has returned err through every open frame (lines 143, 149),
\* at line 120
RetrieveErr(t, err) ==
    /\ v' = [v EXCEPT ![t].err = err]
    /\ ret' = [ret EXCEPT ![t] = [ud |-> ZeroDep, acc |-> acc,
                                  err |-> ResolveErr(v[t].root, err), done |-> TRUE]]
    /\ fr' = [fr EXCEPT ![t] = <<>>]
    /\ pc' = [pc EXCEPT ![t] = "ResolveRet"]

\* a collaborator call that returns an error of its own
Fails(t, o) ==
    /\ nfail < MaxFailures
    /\ nfail' = nfail + 1
    /\ Logged(t, o, "err")
    /\ RetrieveErr(t, Err(o, v[t].d))

\* ---------------------------------------------------------------- actions
\* a caller invokes Resolve(ctx, d): lines 108-111
CallResolve(t, d) ==
    /\ pc[t] = "idle"
    /\ ncalls < MaxCalls
    /\ ncalls' = ncalls + 1
    /\ call' = [call EXCEPT ![t] = [kind |-> "Resolve", deps |-> <<d>>, k |-> 1,
                                    view |-> EmptyView, e |-> NoPkg, base |-> Len(acc),
                                    added |-> <<>>]]
    /\ v' = [v EXCEPT ![t] = Visit(d, TRUE, 1, cache)]
    /\ pc' = [pc EXCEPT ![t] = "ResolveTag"]
    /\ fr' = fr
    /\ UNCHANGED <<reg, cache, acc, ret, snap, log, hist, fetched, nchg, nfail>>

\* a caller invokes Snapshot(ctx, deps): lines 85-89, and 100-102 for no deps
CallSnapshot(t, deps) ==
    /\ pc[t] = "idle"
    /\ ncalls < MaxCalls
    /\ ncalls' = ncalls + 1
    /\ hist' = [hist EXCEPT ![t] = <<>>]
    /\ IF deps = <<>>
       THEN /\ call' = [call EXCEPT ![t] = [NoCall EXCEPT !.kind = "Snapshot",
                                                         !.base = Len(acc)]]
            /\ v' = [v EXCEPT ![t] = NoVisit]
            /\ snap' = [snap EXCEPT ![t] = [ok |-> TRUE, view |-> EmptyView,
                                            err |-> NoErr, done |-> TRUE]]
            /\ pc' = [pc EXCEPT ![t] = "SnapshotRet"]
       ELSE /\ call' = [call EXCEPT ![t] = [kind |-> "Snapshot", deps |-> deps, k |-> 1,
                                            view |-> EmptyView, e |-> NoPkg,
                                            base |-> Len(acc), added |-> <<>>]]
            /\ v' = [v EXCEPT ![t] = Visit(deps[1], TRUE, 1, cache)]
            /\ snap' = snap
            /\ pc' = [pc EXCEPT ![t] = "ResolveTag"]
    /\ UNCHANGED <<reg, cache, acc, fr, ret, log, fetched, nchg, nfail>>

\* finalizeDepVersion: m.i.ResolveTag(ctx, *d), lines 178-180 and 213-222
ResolveTagStep(t) ==
    /\ pc[t] = "ResolveTag"
    /\ \/ /\ Logged(t, "ResolveTag", ResolveTag(reg, v[t].d))
          /\ v' = [v EXCEPT ![t].d = finalizeDepVersion(v[t].d, ResolveTag(reg, v[t].d))]
          /\ pc' = [pc EXCEPT ![t] = "Get"]
          /\ UNCHANGED <<ret, fr, nfail>>
       \/ Fails(t, "ResolveTag")
    /\ UNCHANGED <<reg, cache, acc, call, snap, hist, fetched, ncalls, nchg>>

\* what retrievePkg does with the (p, err) that m.c.Get(d) returned: lines 183-193
AfterGet(t, r) ==
    IF r.err # NoErr /\ ~IsNotExist(r.err)
    THEN /\ Logged(t, "Get", "err")
         /\ RetrieveErr(t, r.err)
    ELSE IF IsNotExist(r.err)
    THEN /\ Logged(t, "Get", "miss")
         /\ v' = [v EXCEPT ![t].p = r.p]
         /\ pc' = [pc EXCEPT ![t] = "ResolveImage"]
         /\ UNCHANGED <<ret, fr>>
    ELSE /\ Logged(t, "Get", "hit")
         /\ v' = [v EXCEPT ![t].p = r.p, ![t].cached = r.p, ![t].hit = TRUE]
         /\ pc' = [pc EXCEPT ![t] = "ResolveDigest"]
         /\ UNCHANGED <<ret, fr>>

\* m.c.Get(d), line 182
GetStep(t) ==
    /\ pc[t] = "Get"
    /\ \/ /\ AfterGet(t, CacheGet(cache, v[t].d))
          /\ UNCHANGED nfail
       \/ /\ nfail < MaxFailures
          /\ nfail' = nfail + 1
          /\ AfterGet(t, [p |-> NoPkg, err |-> Err("Get", v[t].d)])
    /\ UNCHANGED <<reg, cache, acc, call, snap, hist, fetched, ncalls, nchg>>

\* m.i.ResolveDigest(ctx, d) and the comparison: lines 195-200, 209
ResolveDigestStep(t) ==
    /\ pc[t] = "ResolveDigest"
    /\ \/ /\ Logged(t, "ResolveDigest", ResolveDigest(reg, v[t].d))
          /\ v' = [v EXCEPT ![t].digest = ResolveDigest(reg, v[t].d)]
          /\ pc' = [pc EXCEPT ![t] = IF Stale(v[t].p, ResolveDigest(reg, v[t].d))
                                     THEN "ResolveImage" ELSE "Append"]
          /\ UNCHANGED <<ret, fr, nfail>>
       \/ Fails(t, "ResolveDigest")
    /\ UNCHANGED <<reg, cache, acc, call, snap, hist, fetched, ncalls, nchg>>

\* addPkg: m.i.ResolveImage(ctx, d), lines 157-160
ResolveImageStep(t) ==
    /\ pc[t] = "ResolveImage"
    /\ \/ /\ Logged(t, "ResolveImage", "ok")
          /\ v' = [v EXCEPT ![t].img = ResolveImage(reg, v[t].d)]
          /\ pc' = [pc EXCEPT ![t] = "FromImage"]
          /\ UNCHANGED <<ret, fr, nfail>>
       \/ Fails(t, "ResolveImage")
    /\ UNCHANGED <<reg, cache, acc, call, snap, hist, fetched, ncalls, nchg>>

\* addPkg: m.x.FromImage(d.Package, t, i), lines 162-165
FromImageStep(t) ==
    /\ pc[t] = "FromImage"
    /\ \/ /\ Logged(t, "FromImage", "ok")
          /\ v' = [v EXCEPT ![t].p = FromImage(v[t].d.pkg, v[t].img.tag, v[t].img)]
          /\ pc' = [pc EXCEPT ![t] = "Store"]
          /\ UNCHANGED <<ret, fr, nfail>>
       \/ Fails(t, "FromImage")
    /\ UNCHANGED <<reg, cache, acc, call, snap, hist, fetched, ncalls, nchg>>

\* addPkg: m.c.Store(d, p), lines 168-173, and the return of retrievePkg
StoreStep(t) ==
    /\ pc[t] = "Store"
    /\ \/ /\ Logged(t, "Store", "ok")
          /\ cache' = addPkgStore(cache, v[t].d, v[t].p)
          /\ fetched' = [fetched EXCEPT ![v[t].d] = v[t].img.digest]
          /\ pc' = [pc EXCEPT ![t] = "Append"]
          /\ UNCHANGED <<v, ret, fr, nfail>>
       \/ /\ Fails(t, "Store")
          /\ UNCHANGED <<cache, fetched>>
    /\ UNCHANGED <<reg, acc, call, snap, hist, ncalls, nchg>>

\* m.acc = append(m.acc, e): line 115 for the root, line 145 for a dependency
AppendStep(t) ==
    /\ pc[t] = "Append"
    /\ acc' = appendAcc(acc, v[t].p)
    /\ call' = [call EXCEPT ![t].e = IF v[t].root THEN v[t].p ELSE @,
                                ![t].added = Append(@, v[t].p)]
    /\ pc' = [pc EXCEPT ![t] = "resolveAllDeps"]
    /\ UNCHANGED <<reg, cache, fr, v, ret, snap, log, hist, fetched, ncalls, nchg, nfail>>

\* resolveAllDeps(ctx, e) for the package just appended (lines 119, 147): it
\* visits the next dependency (lines 140-141), or every open loop is done and
\* Resolve returns its result (lines 123-127)
ResolveAllDepsStep(t) ==
    /\ pc[t] = "resolveAllDeps"
    /\ LET s == Descend(fr[t], v[t].p)
           root == call[t].deps[call[t].k]
       IN /\ fr' = [fr EXCEPT ![t] = s]
          /\ IF s = <<>>
             THEN /\ ret' = [ret EXCEPT ![t] =
                        [ud |-> [type |-> PkgType(call[t].e), pkg |-> root.pkg,
                                 con |-> PkgVersion(call[t].e)],
                         acc |-> acc, err |-> NoErr, done |-> TRUE]]
                  /\ pc' = [pc EXCEPT ![t] = "ResolveRet"]
                  /\ v' = v
             ELSE /\ v[t].n < MaxVisits
                  /\ v' = [v EXCEPT ![t] =
                        Visit(Dependencies(s[Len(s)].p)[s[Len(s)].i], FALSE, v[t].n + 1, cache)]
                  /\ pc' = [pc EXCEPT ![t] = "ResolveTag"]
                  /\ ret' = ret
    /\ UNCHANGED <<reg, cache, acc, call, snap, log, hist, fetched, ncalls, nchg, nfail>>

\* the goroutine's locals are gone once its top-level call has returned
Returned(t) ==
    /\ pc' = [pc EXCEPT ![t] = "idle"]
    /\ call' = [call EXCEPT ![t] = NoCall]
    /\ v' = [v EXCEPT ![t] = NoVisit]
    /\ ret' = [ret EXCEPT ![t] = NoRet]
    /\ snap' = [snap EXCEPT ![t] = NoSnap]
    /\ log' = [log EXCEPT ![t] = <<>>]

\* what a caller of Resolve holds after the call
Summary(t) ==
    [d |-> call[t].deps[1], ud |-> ret[t].ud, acc |-> ret[t].acc,
     added |-> SubSeq(ret[t].acc, call[t].base + 1, Len(ret[t].acc)),
     nchg |-> nchg, fetch |-> (Fetches(log[t]) # {})]

\* Resolve returns to a caller other than Snapshot; hist keeps the calls in a
\* row in which no collaborator call failed
ReturnResolve(t) ==
    /\ pc[t] = "ResolveRet"
    /\ call[t].kind = "Resolve"
    /\ Returned(t)
    /\ hist' = [hist EXCEPT ![t] =
            IF v[t].err # NoErr THEN <<>>
            ELSE (IF @ = <<>> THEN <<>> ELSE <<@[Len(@)]>>) \o <<Summary(t)>>]
    /\ UNCHANGED <<reg, cache, acc, fr, fetched, ncalls, nchg, nfail>>

\* Snapshot returns to its caller: lines 91 and 100-102
ReturnSnapshot(t) ==
    /\ pc[t] = "SnapshotRet"
    /\ Returned(t)
    /\ UNCHANGED <<reg, cache, acc, fr, hist, fetched, ncalls, nchg, nfail>>

\* Snapshot takes what Resolve returned: lines 89-98, then 100-102
SnapshotStep(t) ==
    /\ pc[t] = "ResolveRet"
    /\ call[t].kind = "Snapshot"
    /\ IF ret[t].err # NoErr
       THEN /\ snap' = [snap EXCEPT ![t] = [ok |-> FALSE, view |-> EmptyView,
                                            err |-> ret[t].err, done |-> TRUE]]
            /\ pc' = [pc EXCEPT ![t] = "SnapshotRet"]
            /\ UNCHANGED <<call, v, log>>
       ELSE IF call[t].k < Len(call[t].deps)
       THEN /\ call' = [call EXCEPT ![t].k = @ + 1,
                                    ![t].view = MergeView(@, ret[t].acc),
                                    ![t].e = NoPkg,
                                    ![t].base = Len(acc),
                                    ![t].added = <<>>]
            /\ v' = [v EXCEPT ![t] = Visit(call[t].deps[call[t].k + 1], TRUE, 1, cache)]
            /\ log' = [log EXCEPT ![t] = <<>>]
            /\ pc' = [pc EXCEPT ![t] = "ResolveTag"]
            /\ snap' = snap
       ELSE /\ snap' = [snap EXCEPT ![t] =
                    [ok |-> TRUE, view |-> MergeView(call[t].view, ret[t].acc),
                     err |-> NoErr, done |-> TRUE]]
            /\ pc' = [pc EXCEPT ![t] = "SnapshotRet"]
            /\ UNCHANGED <<call, v, log>>
    /\ UNCHANGED <<reg, cache, acc, fr, ret, hist, fetched, ncalls, nchg, nfail>>

\* the registry moves a package's tag or republishes the content of its
\* current tag, while no call into the Manager is in progress
RegistryChange ==
    /\ \A t \in Threads : pc[t] = "idle"
    /\ nchg < MaxRegChanges
    /\ nchg' = nchg + 1
    /\ \/ \E p \in Pkgs, ver \in Versions :
            /\ reg.tag[p] # ver
            /\ reg' = [reg EXCEPT !.tag[p] = ver]
       \/ \E p \in Pkgs, dg \in Digests :
            /\ reg.dig[<<p, reg.tag[p]>>] # dg
            /\ reg' = [reg EXCEPT !.dig[<<p, reg.tag[p]>>] = dg]
    /\ UNCHANGED <<cache, acc, pc, call, fr, v, ret, snap, log, hist, fetched,
                   ncalls, nfail>>

Step(t) ==
    \/ \E d \in Roots : CallResolve(t, d)
    \/ \E deps \in SnapshotInputs : CallSnapshot(t, deps)
    \/ ResolveTagStep(t)
    \/ GetStep(t)
    \/ ResolveDigestStep(t)
    \/ ResolveImageStep(t)
    \/ FromImageStep(t)
    \/ StoreStep(t)
    \/ AppendStep(t)
    \/ ResolveAllDepsStep(t)
    \/ ReturnResolve(t)
    \/ SnapshotStep(t)
    \/ ReturnSnapshot(t)

Next == (\E t \in Sequential : Step(t)) \/ RegistryChange

Spec == Init /\ [][Next]_vars

\* ---------------------------------------------------------------- claims
Last(a) == a[Len(a)]

\* the collaborator calls of visit n, in order
VisitLog(l, n) == SelectSeq(l, LAMBDA e : e.n = n)

FetchOps == {"ResolveImage", "FromImage", "Store"}

\* C1: a visit that found its identity in the Cache appends a package whose
\* digest is the one the registry reports for the finalized identity, and
\* ResolveDigest was called and compared in that visit before the package
\* was used.
C1_Freshness ==
    \A t \in Sequential :
        (pc[t] = "resolveAllDeps" /\ v[t].hit) =>
            /\ Last(acc) = v[t].p
            /\ PkgDigest(Last(acc)) = ResolveDigest(reg, v[t].d)
            /\ \E i \in DOMAIN log[t] :
                  /\ log[t][i].n = v[t].n
                  /\ log[t][i].op = "ResolveDigest"
                  /\ log[t][i].id = v[t].d
                  /\ log[t][i].out = PkgDigest(Last(acc))

\* a stale cache entry was found, and what was appended is not that entry
C1_Witness ==
    \E t \in Sequential :
        /\ pc[t] = "resolveAllDeps"
        /\ v[t].hit
        /\ PkgDigest(v[t].cached) # PkgDigest(Last(acc))

\* the package the registry serves for an identity, and the packages
\* reachable from it through declared dependencies
RegPkg(r, d) ==
    FromImage(d.pkg, ResolveTag(r, d), ResolveImage(r, finalizeDepVersion(d, ResolveTag(r, d))))

RECURSIVE Closure(_, _)
Closure(r, d) ==
    {RegPkg(r, d)} \cup
    UNION {Closure(r, Dependencies(RegPkg(r, d))[i]) : i \in DOMAIN Dependencies(RegPkg(r, d))}

\* C2: whenever Resolve returns a nil error, the accumulator it returns
\* holds the root package and every package reachable from it.
C2_Completeness ==
    \A t \in Sequential :
        (pc[t] = "ResolveRet" /\ ret[t].err = NoErr) =>
            \A q \in Closure(reg, call[t].deps[call[t].k]) :
                \E i \in DOMAIN ret[t].acc : ret[t].acc[i] = q

\* C3: an error of any collaborator call made for a transitive dependency is
\* the error Resolve returns, and Snapshot returns it with no Snapshot.
C3_TransitiveErrorPropagates ==
    \A t \in Sequential :
        /\ (pc[t] = "ResolveRet" /\ ~v[t].root /\ v[t].err # NoErr) =>
               /\ ret[t].err = v[t].err
               /\ ret[t].err # NoErr
        /\ (pc[t] = "SnapshotRet" /\ ~v[t].root /\ v[t].err # NoErr) =>
               /\ snap[t].err = v[t].err
               /\ ~snap[t].ok
               /\ snap[t].view = EmptyView

\* Snapshot has returned the Store error of a transitive dependency
C3_Witness ==
    \E t \in Sequential :
        /\ pc[t] = "SnapshotRet"
        /\ ~v[t].root
        /\ v[t].err.op = "Store"
        /\ snap[t].err = v[t].err

MissOps == <<"ResolveTag", "Get", "ResolveImage", "FromImage", "Store">>

MissVisits(l) == {l[i].n : i \in {j \in DOMAIN l : l[j].op = "Get" /\ l[j].out = "miss"}}

\* C5: a cache miss is never an error of Resolve or Snapshot.  The calls of a
\* visit whose Get missed are ResolveTag, Get, ResolveImage, FromImage and
\* Store in this order, the last three with the finalized identity; the
\* visit stops short of Store only where one of these calls itself failed;
\* and the package appended for the visit is the fetched one, which the
\* Cache then holds.
C5_MissIsAbsorbed ==
    \A t \in Sequential :
        /\ ret[t].err.op # "NotExist"
        /\ snap[t].err.op # "NotExist"
        /\ v[t].err.op # "NotExist"
        /\ \A n \in MissVisits(log[t]) :
              LET es == VisitLog(log[t], n)
              IN /\ Len(es) <= Len(MissOps)
                 /\ \A i \in DOMAIN es : es[i].op = MissOps[i]
                 /\ \A i \in 3..Len(es) : es[i].id = es[2].id /\ es[i].id.con \in Versions
                 /\ (Len(es) < Len(MissOps) /\ Last(es).out # "err") =>
                        (n = v[t].n /\ pc[t] = MissOps[Len(es) + 1])
        /\ (pc[t] = "resolveAllDeps" /\ v[t].n \in MissVisits(log[t])) =>
              /\ Last(acc) = FromImage(v[t].d.pkg, v[t].img.tag, v[t].img)
              /\ v[t].img = ResolveImage(reg, v[t].d)
              /\ CacheGet(cache, v[t].d) = [p |-> Last(acc), err |-> NoErr]

\* a transitive dependency missed the Cache, was fetched and was appended
C5_Witness ==
    \E t \in Sequential :
        /\ pc[t] = "resolveAllDeps"
        /\ ~v[t].root
        /\ v[t].n \in MissVisits(log[t])

\* C6: once a fetch has been stored for an identity, Get for that identity
\* returns a package with the digest the registry served at that fetch, for
\* as long as no later fetch is stored for it; and that digest is the one the
\* registry reported for the identity when the fetch was made.
C6_WriteThrough ==
    /\ \A k \in Keys :
          fetched[k] # "" =>
              /\ CacheGet(cache, k).err = NoErr
              /\ PkgDigest(CacheGet(cache, k).p) = fetched[k]
    /\ \A t \in Sequential :
          (pc[t] = "Append" /\ Fetches(VisitLog(log[t], v[t].n)) # {}) =>
              /\ fetched[v[t].d] = ResolveDigest(reg, v[t].d)
              /\ v[t].d.con \in Versions

\* a later Get hits an entry that a fetch stored, after the registry changed
C6_Witness ==
    \E t \in Sequential :
        /\ pc[t] = "ResolveDigest"
        /\ v[t].hit
        /\ fetched[v[t].d] = PkgDigest(v[t].p)
        /\ nchg > 0

\* C7: two Resolve calls in a row for the same dependency, with no registry
\* change between them and no failing collaborator call, return the same
\* resolved identity and the same accumulator contents, and the second
\* performs no fetch.
C7_Idempotence ==
    \A t \in Sequential :
        (/\ Len(hist[t]) = 2
         /\ hist[t][1].d = hist[t][2].d
         /\ hist[t][1].nchg = hist[t][2].nchg) =>
            /\ hist[t][2].ud = hist[t][1].ud
            /\ hist[t][2].acc = hist[t][1].acc
            /\ ~hist[t][2].fetch

\* what does hold of two such calls: the second appends what the first
\* appended, after what the first returned
C7_AppendsAgain ==
    \A t \in Sequential :
        (/\ Len(hist[t]) = 2
         /\ hist[t][1].d = hist[t][2].d
         /\ hist[t][1].nchg = hist[t][2].nchg) =>
            /\ hist[t][2].ud = hist[t][1].ud
            /\ hist[t][2].added = hist[t][1].added
            /\ hist[t][2].acc = hist[t][1].acc \o hist[t][1].added
            /\ ~hist[t][2].fetch

Declaring(a, k) == {i \in DOMAIN a : k \in ExportedTypes(a[i])}

Max(S) == CHOOSE x \in S : \A y \in S : y <= x

\* C8: the view Snapshot returns maps every type some accumulated package
\* exports to the validator of the last package, in accumulation order, that
\* exports it; and it is the mapping one merge over the final accumulator
\* gives.  (With no roots nothing is merged and the view is empty.)
C8_LastWriterWins ==
    \A t \in Sequential :
        (pc[t] = "SnapshotRet" /\ snap[t].ok) =>
            IF call[t].deps = <<>> THEN snap[t].view = EmptyView
            ELSE /\ DOMAIN snap[t].view = {k \in Types : Declaring(acc, k) # {}}
                 /\ \A k \in DOMAIN snap[t].view :
                       snap[t].view[k] = Validators(acc[Max(Declaring(acc, k))])[k]
                 /\ snap[t].view = MergeView(EmptyView, acc)

\* Snapshot of two roots returns while some type is exported by a first and a
\* last package with different validators
C8_Witness ==
    \E t \in Sequential :
        /\ pc[t] = "SnapshotRet"
        /\ snap[t].ok
        /\ Len(call[t].deps) = 2
        /\ \E k \in Types, i \in DOMAIN acc, j \in DOMAIN acc :
              /\ i < j
              /\ i \in Declaring(acc, k)
              /\ j = Max(Declaring(acc, k))
              /\ Validators(acc[i])[k] # Validators(acc[j])[k]

\* C9: in every visit ResolveTag is the first call and is made with the
\* constraint as passed; every other call of the visit comes after a
\* successful ResolveTag of that visit, and Get, Store, ResolveDigest and
\* ResolveImage are made with the identity whose constraint is the tag that
\* ResolveTag returned.
C9_FinalizeBeforeUse ==
    \A t \in Sequential :
        \A i \in DOMAIN log[t] :
            LET e == log[t][i]
            IN IF e.op = "ResolveTag"
               THEN /\ \A j \in 1..(i - 1) : log[t][j].n # e.n
                    /\ e.id.con \in Cons
               ELSE \E j \in 1..(i - 1) :
                      /\ log[t][j].n = e.n
                      /\ log[t][j].op = "ResolveTag"
                      /\ log[t][j].out \in Versions
                      /\ e.op \in {"Get", "Store", "ResolveDigest", "ResolveImage"} =>
                            /\ e.id = Dep(log[t][j].id.pkg, log[t][j].out)
                            /\ e.id # log[t][j].id

\* a transitive visit has made all four calls, after a constraint was finalized
C9_Witness ==
    \E t \in Sequential :
        \E n \in 2..4 :
            /\ {e.op : e \in {log[t][i] : i \in {j \in DOMAIN log[t] : log[t][j].n = n}}}
                  = {"ResolveTag", "Get", "ResolveDigest", "ResolveImage", "FromImage", "Store"}
            /\ pc[t] = "Append"

\* C10: a visit that finds a cached package whose digest equals the one
\* ResolveDigest returns calls neither ResolveImage nor FromImage nor Store,
\* leaves the Cache as it was, and appends the cached package.
C10_FreshHitFrame ==
    \A t \in Sequential :
        (/\ pc[t] \in {"Append", "resolveAllDeps"}
         /\ v[t].hit
         /\ v[t].digest = PkgDigest(v[t].cached)) =>
            /\ \A i \in DOMAIN log[t] : log[t][i].n = v[t].n => log[t][i].op \notin FetchOps
            /\ cache = v[t].c0
            /\ v[t].p = v[t].cached
            /\ (pc[t] = "resolveAllDeps" => Last(acc) = v[t].cached)

\* a fresh cached package has been appended
C10_Witness ==
    \E t \in Sequential :
        /\ pc[t] = "resolveAllDeps"
        /\ v[t].hit
        /\ v[t].digest = PkgDigest(v[t].cached)
        /\ Last(acc) = v[t].cached

\* C11: a visit that found a package in the Cache whose digest differs from
\* the one ResolveDigest returned goes on with ResolveImage, FromImage and
\* Store, in this order and once each, as far as no call fails; when the
\* visit reaches the append the Cache holds, for the finalized identity, the
\* newly marshalled package in place of the old one, no other entry has
\* changed, and the package appended is the new one.
C11_StaleHitReplaced ==
    \A t \in Sequential :
        (v[t].hit /\ v[t].digest # "" /\ v[t].digest # PkgDigest(v[t].cached)) =>
            LET l == VisitLog(log[t], v[t].n)
                new == FromImage(v[t].d.pkg, RegTagOf(reg, v[t].d), ResolveImage(reg, v[t].d))
            IN /\ pc[t] \in {"Append", "resolveAllDeps"} =>
                     /\ [i \in 1..Len(l) |-> l[i].op] =
                            <<"ResolveTag", "Get", "ResolveDigest",
                              "ResolveImage", "FromImage", "Store">>
                     /\ \A i \in 4..6 : l[i].out = "ok" /\ l[i].id = v[t].d
                     /\ v[t].p = new
                     /\ PkgDigest(v[t].p) = v[t].digest
                     /\ v[t].p # v[t].cached
                     /\ v[t].c0[v[t].d] = v[t].cached
                     /\ cache = [v[t].c0 EXCEPT ![v[t].d] = new]
               /\ pc[t] = "resolveAllDeps" => Last(acc) = new

\* a package stored under an earlier digest has been fetched again, stored
\* and appended
C11_Witness ==
    \E t \in Sequential :
        /\ pc[t] = "resolveAllDeps"
        /\ v[t].hit
        /\ v[t].cached # NoPkg
        /\ v[t].digest # PkgDigest(v[t].cached)
        /\ cache[v[t].d] = Last(acc)
        /\ cache[v[t].d] # v[t].cached

IsPrefix(a, b) == Len(a) <= Len(b) /\ a = SubSeq(b, 1, Len(a))

\* the packages appended since the Resolve in progress was entered
Added(t) == SubSeq(acc, call[t].base + 1, Len(acc))

\* the depth-first pre-order of the packages the registry serves from an
\* identity on: the package, then the pre-order of each of its dependencies
\* in declared order
RECURSIVE PreOrder(_, _)
RECURSIVE PreOrderAll(_, _)
PreOrder(r, d) == <<RegPkg(r, d)>> \o PreOrderAll(r, Dependencies(RegPkg(r, d)))

PreOrderAll(r, ds) ==
    IF ds = <<>> THEN <<>>
    ELSE PreOrder(r, Head(ds)) \o PreOrderAll(r, Tail(ds))

\* C12: at every moment of a Resolve the packages it has appended so far are
\* an initial part of the depth-first pre-order from its root (a package
\* before its dependencies, dependencies in declared order, the whole subtree
\* of one dependency before its next sibling), and a Resolve in which no
\* call failed returns with the whole pre-order appended.
C12_PreOrder ==
    \A t \in Sequential :
        (call[t].kind # "none" /\ call[t].deps # <<>>) =>
            LET po == PreOrder(reg, call[t].deps[call[t].k])
            IN /\ IsPrefix(Added(t), po)
               /\ Added(t) = call[t].added
               /\ (pc[t] = "ResolveRet" /\ v[t].err = NoErr) =>
                     /\ Added(t) = po
                     /\ ret[t].acc = SubSeq(acc, 1, call[t].base) \o po

\* Resolve returns having appended a root, its first dependency, that
\* dependency's own dependency and then the root's second dependency, the
\* last two being different packages
C12_Witness ==
    \E t \in Sequential :
        /\ pc[t] = "ResolveRet"
        /\ v[t].err = NoErr
        /\ Len(Added(t)) = 4
        /\ Dependencies(Added(t)[1]) # <<>>
        /\ Dependencies(Added(t)[2]) # <<>>
        /\ Added(t)[3] = RegPkg(reg, Dependencies(Added(t)[2])[1])
        /\ Added(t)[4] = RegPkg(reg, Dependencies(Added(t)[1])[2])
        /\ Added(t)[3] # Added(t)[4]

\* the validators of the packages reachable from the roots of a Snapshot call
ClosureValidators(r, deps, k) ==
    {Validators(q)[k] : q \in {x \in UNION {Closure(r, deps[i]) : i \in DOMAIN deps} :
                                   k \in ExportedTypes(x)}}

\* C13: the mapping Snapshot(deps) returns holds only validators exported by
\* packages in the dependency closure of deps, whatever calls were made on
\* the Manager before.
C13_SnapshotOneRun ==
    \A t \in Sequential :
        (pc[t] = "SnapshotRet" /\ snap[t].ok) =>
            \A k \in DOMAIN snap[t].view :
                snap[t].view[k] \in ClosureValidators(reg, call[t].deps, k)

\* what does hold: the mapping of the first call made on a Manager holds
\* only validators from the closure of its roots
C13_FirstCall ==
    \A t \in Sequential :
        (pc[t] = "SnapshotRet" /\ snap[t].ok /\ ncalls = 1) =>
            \A k \in DOMAIN snap[t].view :
                snap[t].view[k] \in ClosureValidators(reg, call[t].deps, k)

\* what does not need a failed call: a Snapshot after an earlier call, no
\* collaborator call having failed, returns a validator from outside the
\* closure of its roots
C13_StaleValidator ==
    \E t \in Sequential :
        /\ pc[t] = "SnapshotRet"
        /\ snap[t].ok
        /\ nfail = 0
        /\ \E k \in DOMAIN snap[t].view :
              snap[t].view[k] \notin ClosureValidators(reg, call[t].deps, k)

\* C14: no step of any Resolve or Snapshot call, successful or failing,
\* takes anything out of the Manager's accumulator or changes what it holds:
\* the accumulator before a step is an initial part of the accumulator after
\* it, and what a Resolve returns is the accumulator at its return; so each
\* returned accumulator extends the one returned before.
C14_AppendOnly ==
    [][/\ IsPrefix(acc, acc')
       /\ \A t \in Sequential :
             (pc[t] # "ResolveRet" /\ pc'[t] = "ResolveRet") => ret'[t].acc = acc']_vars

\* a Resolve entered with a non-empty accumulator returns it with more
\* packages after those it held
C14_Witness ==
    \E t \in Sequential :
        /\ pc[t] = "ResolveRet"
        /\ call[t].base > 0
        /\ Len(ret[t].acc) > call[t].base
        /\ ret[t].acc = acc
        /\ ncalls = 2

\* ------------------------------------------- a registry with a cycle
\* A and B are published with content that depends on each other; no
\* collaborator call fails and the registry does not change
InitCyclic ==
    /\ reg \in {[tag |-> tg,
                 dig |-> [k \in Pkgs \X Versions |->
                             IF k[1] \in {"A", "B"} THEN Cyclic ELSE "d1"]] :
                tg \in [Pkgs -> Versions]}
    /\ cache = [k \in Keys |-> NoPkg]
    /\ acc = <<>>
    /\ pc = [t \in Threads |-> "idle"]
    /\ call = [t \in Threads |-> NoCall]
    /\ fr = [t \in Threads |-> <<>>]
    /\ v = [t \in Threads |-> NoVisit]
    /\ ret = [t \in Threads |-> NoRet]
    /\ snap = [t \in Threads |-> NoSnap]
    /\ log = [t \in Threads |-> <<>>]
    /\ hist = [t \in Threads |-> <<>>]
    /\ fetched = [k \in Keys |-> ""]
    /\ ncalls = MaxCalls - 1
    /\ nchg = MaxRegChanges
    /\ nfail = MaxFailures

CyclicRoots == {Dep("A", "^1"), Dep("B", "^1")}

StepCyclic(t) ==
    \/ \E d \in CyclicRoots : CallResolve(t, d)
    \/ \E deps \in {<<d>> : d \in CyclicRoots} : CallSnapshot(t, deps)
    \/ ResolveTagStep(t)
    \/ GetStep(t)
    \/ ResolveDigestStep(t)
    \/ ResolveImageStep(t)
    \/ FromImageStep(t)
    \/ StoreStep(t)
    \/ AppendStep(t)
    \/ ResolveAllDepsStep(t)

NextCyclic == \E t \in Sequential : StepCyclic(t)

SpecCyclic == InitCyclic /\ [][NextCyclic]_vars

\* C15: with A depending on B and B on A and every collaborator call
\* succeeding, a Resolve (or a Snapshot's Resolve) never reaches a return: no
\* error is raised, no frame of resolveAllDeps is ever closed, A and B are
\* appended in turn, one package per visit, and as long as the bound on
\* visits is not reached the call has a next step.
C15_NeverReturns ==
    \A t \in Sequential :
        pc[t] # "idle" =>
            /\ pc[t] \notin {"ResolveRet", "SnapshotRet"}
            /\ ~ret[t].done /\ ~snap[t].done
            /\ v[t].err = NoErr
            /\ \A i \in DOMAIN log[t] : log[t][i].out # "err"
            /\ Len(fr[t]) = v[t].n - 1
            /\ Len(Added(t)) = IF pc[t] = "resolveAllDeps" THEN v[t].n ELSE v[t].n - 1
            /\ \A i \in DOMAIN Added(t) :
                  /\ Added(t)[i].name \in {"A", "B"}
                  /\ i > 1 => Added(t)[i].name # Added(t)[i - 1].name
            /\ ~(pc[t] = "resolveAllDeps" /\ v[t].n >= MaxVisits) => ENABLED StepCyclic(t)

\* the root has been appended for the third time, as many packages appended
\* as the bound on visits allows
C15_Witness ==
    \E t \in Sequential :
        /\ pc[t] = "resolveAllDeps"
        /\ v[t].n = MaxVisits
        /\ Len(Added(t)) = MaxVisits
        /\ Added(t)[1] = Added(t)[3]
        /\ Added(t)[3] = Added(t)[5]
        /\ Len(fr[t]) = MaxVisits - 1

\* the collaborator calls of the Resolve in progress that returned an error
Failed(l) == {i \in DOMAIN l : l[i].out = "err"}

\* C16: in the log of a Resolve no visit holds the same collaborator call
\* twice and every visit begins with its one ResolveTag; a call that returned
\* an error is the last call of the Resolve, which has returned with the
\* failing visit's package not appended; and a Snapshot whose Resolve
\* returned an error returns that error next, with no further visit, call or
\* append.
C16_NoRetryStopAtFailure ==
    /\ [](\A t \in Sequential :
            /\ \A n \in 1..v[t].n :
                  LET l == VisitLog(log[t], n)
                  IN /\ \A i \in DOMAIN l, j \in DOMAIN l : i # j => l[i].op # l[j].op
                     /\ l # <<>> => l[1].op = "ResolveTag"
                     /\ l = <<>> => (n = v[t].n /\ pc[t] = "ResolveTag")
            /\ \A i \in Failed(log[t]) :
                  /\ i = Len(log[t])
                  /\ pc[t] \in {"ResolveRet", "SnapshotRet"}
                  /\ ret[t].done
                  /\ v[t].err # NoErr
                  /\ log[t][i].n = v[t].n
                  /\ Len(Added(t)) = v[t].n - 1
                  /\ ret[t].acc = acc)
    /\ [][\A t \in Sequential :
            (pc[t] = "ResolveRet" /\ call[t].kind = "Snapshot" /\ ret[t].err # NoErr) =>
                /\ pc'[t] = "SnapshotRet"
                /\ ~snap'[t].ok
                /\ snap'[t].err = ret[t].err
                /\ call'[t].k = call[t].k
                /\ log'[t] = log[t]
                /\ acc' = acc]_vars

\* Snapshot has returned the error of its first root's Resolve, a second
\* root left unresolved and the packages appended before the failure kept
C16_Witness ==
    \E t \in Sequential :
        /\ pc[t] = "SnapshotRet"
        /\ ~snap[t].ok
        /\ snap[t].err # NoErr
        /\ call[t].k = 1
        /\ Len(call[t].deps) = 2
        /\ Failed(log[t]) = {Len(log[t])}
        /\ Len(Added(t)) >= 1

\* ------------------------------------------- two goroutines, one Manager
\* m.acc = append(m.acc, e) is a read of m.acc followed by a write of it,
\* with no lock around them (lines 115, 145): another goroutine may run in
\* between
AppendRead(t) ==
    /\ pc[t] = "Append"
    /\ v' = [v EXCEPT ![t].old = acc]
    /\ pc' = [pc EXCEPT ![t] = "AppendWrite"]
    /\ UNCHANGED <<reg, cache, acc, call, fr, ret, snap, log, hist, fetched,
                   ncalls, nchg, nfail>>

AppendWrite(t) ==
    /\ pc[t] = "AppendWrite"
    /\ acc' = appendAcc(v[t].old, v[t].p)
    /\ call' = [call EXCEPT ![t].e = IF v[t].root THEN v[t].p ELSE @,
                                ![t].added = Append(@, v[t].p)]
    /\ pc' = [pc EXCEPT ![t] = "resolveAllDeps"]
    /\ UNCHANGED <<reg, cache, fr, v, ret, snap, log, hist, fetched, ncalls, nchg, nfail>>

\* no collaborator call fails and the registry does not change
InitConcurrent ==
    /\ reg = [tag |-> [p \in Pkgs |-> "1.0"],
              dig |-> [k \in Pkgs \X Versions |-> "d1"]]
    /\ cache = [k \in Keys |-> NoPkg]
    /\ acc = <<>>
    /\ pc = [t \in Threads |-> "idle"]
    /\ call = [t \in Threads |-> NoCall]
    /\ fr = [t \in Threads |-> <<>>]
    /\ v = [t \in Threads |-> NoVisit]
    /\ ret = [t \in Threads |-> NoRet]
    /\ snap = [t \in Threads |-> NoSnap]
    /\ log = [t \in Threads |-> <<>>]
    /\ hist = [t \in Threads |-> <<>>]
    /\ fetched = [k \in Keys |-> ""]
    /\ ncalls = 0
    /\ nchg = MaxRegChanges
    /\ nfail = MaxFailures

StepConcurrent(t) ==
    \/ \E d \in Roots : CallResolve(t, d)
    \/ ResolveTagStep(t)
    \/ GetStep(t)
    \/ ResolveDigestStep(t)
    \/ ResolveImageStep(t)
    \/ FromImageStep(t)
    \/ StoreStep(t)
    \/ AppendRead(t)
    \/ AppendWrite(t)
    \/ ResolveAllDepsStep(t)
    \/ ReturnResolve(t)

NextConcurrent == \E t \in Threads : StepConcurrent(t)

SpecConcurrent == InitConcurrent /\ [][NextConcurrent]_vars

Count(q, a) == Cardinality({i \in DOMAIN a : a[i] = q})

\* C17: once two Resolve calls that ran at the same time on one Manager have
\* both returned, the accumulator holds every package either of them
\* appended, as many times as they appended it.
C17_NoLostAppend ==
    \A t1 \in Threads, t2 \in Threads :
        (t1 # t2 /\ pc[t1] = "ResolveRet" /\ pc[t2] = "ResolveRet") =>
            \A i \in DOMAIN call[t1].added :
                Count(call[t1].added[i], call[t1].added \o call[t2].added)
                    <= Count(call[t1].added[i], acc)

\* what does hold: a Resolve that runs alone finds each package it appended
\* in the accumulator
C17_AloneNoLostAppend ==
    \A t \in Threads :
        (pc[t] = "ResolveRet" /\ \A u \in Threads \ {t} : pc[u] = "idle" /\ ncalls = 1) =>
            Added(t) = call[t].added

\* ------------------------------------------- every call in progress goes on
\* the steps of a call in progress: a goroutine that has called into the
\* Manager runs, and every collaborator call it makes returns
Running(t) ==
    \/ ResolveTagStep(t)
    \/ GetStep(t)
    \/ ResolveDigestStep(t)
    \/ ResolveImageStep(t)
    \/ FromImageStep(t)
    \/ StoreStep(t)
    \/ AppendStep(t)
    \/ ResolveAllDepsStep(t)
    \/ ReturnResolve(t)
    \/ SnapshotStep(t)
    \/ ReturnSnapshot(t)

\* a Manager made over a Cache that is empty or already holds every package
\* as first published; one call less is left to make
WarmCache ==
    [k \in Keys |-> IF k.con \in Versions
                    THEN [name |-> k.pkg, version |-> k.con, digest |-> "d1"]
                    ELSE NoPkg]

InitFair ==
    /\ reg = [tag |-> [p \in Pkgs |-> "1.0"],
              dig |-> [k \in Pkgs \X Versions |-> "d1"]]
    /\ \/ cache = [k \in Keys |-> NoPkg] /\ fetched = [k \in Keys |-> ""]
       \/ cache = WarmCache /\ fetched = [k \in Keys |-> WarmCache[k].digest]
    /\ acc = <<>>
    /\ pc = [t \in Threads |-> "idle"]
    /\ call = [t \in Threads |-> NoCall]
    /\ fr = [t \in Threads |-> <<>>]
    /\ v = [t \in Threads |-> NoVisit]
    /\ ret = [t \in Threads |-> NoRet]
    /\ snap = [t \in Threads |-> NoSnap]
    /\ log = [t \in Threads |-> <<>>]
    /\ hist = [t \in Threads |-> <<>>]
    /\ ncalls = 1
    /\ nchg = 0
    /\ nfail = 0

SpecFair == InitFair /\ [][Next]_vars /\ \A t \in Sequential : WF_vars(Running(t))

\* C18: over the acyclic graphs of the registry, every Resolve that is
\* entered returns, and every Snapshot that is entered returns, whether or
\* not a collaborator call returns an error.
C18_Terminates ==
    \A t \in Sequential :
        /\ (call[t].kind = "Resolve") ~> (pc[t] = "ResolveRet")
        /\ (call[t].kind = "Snapshot") ~> (pc[t] = "SnapshotRet")
        /\ (pc[t] # "idle") ~> (pc[t] = "idle")

\* a Snapshot of two roots has returned a mapping, the first root's Resolve
\* having gone through four visits
C18_Witness ==
    \E t \in Sequential :
        /\ pc[t] = "SnapshotRet"
        /\ snap[t].ok
        /\ call[t].k = 2
        /\ nfail = 0
        /\ Len(acc) >= 5

\* the number of dependency paths from an identity to a package, the
\* identity's own package counting as one path to itself
RECURSIVE PathsTo(_, _, _)
RECURSIVE PathsToAll(_, _, _)
PathsTo(r, d, q) ==
    (IF RegPkg(r, d) = q THEN 1 ELSE 0) + PathsToAll(r, Dependencies(RegPkg(r, d)), q)

PathsToAll(r, ds, q) ==
    IF ds = <<>> THEN 0
    ELSE PathsTo(r, Head(ds), q) + PathsToAll(r, Tail(ds), q)

RECURSIVE SumPaths(_, _, _)
SumPaths(r, d, S) ==
    IF S = {} THEN 0
    ELSE LET q == CHOOSE x \in S : TRUE
         IN PathsTo(r, d, q) + SumPaths(r, d, S \ {q})

\* the calls of one kind made with, or ResolveTag calls finalized to, an identity
CallsOf(l, o, id) ==
    {i \in DOMAIN l :
        /\ l[i].op = o
        /\ IF o = "ResolveTag" THEN finalizeDepVersion(l[i].id, l[i].out) = id
           ELSE l[i].id = id}

\* a Resolve in which no call failed has appended each package once per
\* dependency path to it, has called ResolveTag and Get once per visit, and
\* of the visits of one identity only the first has fetched
NoDedup(t) ==
    LET root == call[t].deps[call[t].k]
        all == Closure(reg, root)
    IN /\ \A q \in all : Count(q, Added(t)) = PathsTo(reg, root, q)
       /\ Len(Added(t)) = SumPaths(reg, root, all)
       /\ Len(Added(t)) = v[t].n
       /\ \A id \in Keys :
             LET gets == CallsOf(log[t], "Get", id)
             IN /\ Cardinality(gets) = IF id.con \in Versions
                                        THEN PathsTo(reg, root, RegPkg(reg, id))
                                        ELSE 0
                /\ Cardinality(CallsOf(log[t], "ResolveTag", id)) = Cardinality(gets)
                /\ \A i \in Fetches(log[t]) :
                      log[t][i].id = id =>
                          \A j \in gets : log[t][i].n <= log[t][j].n

====
